---- MODULE Spec2Model ----
(***************************************************************************)
(* EnergyZero sensors (sensor.py): the description table SENSORS, the      *)
(* hourly rendering process_timestamp_prices, get_gas_price, the entity    *)
(* set-up and the reading of a sensor's value.                             *)
(*                                                                         *)
(* Time.  An hour-aligned datetime is the integer number of hours since    *)
(* 2025-10-26 00:00 UTC (summer time ends in Europe at 01:00 UTC); the     *)
(* clock 'now' counts ticks of 1/TicksPerHour hour from the same instant.  *)
(* Prices are integers in units of 0.001 EUR; PriceSet holds none whose    *)
(* third decimal is 5, where the rounding of '.2f' depends on the binary   *)
(* representation of the float.                                            *)
(* Strings that are built by the code are sequences of characters, so      *)
(* that formatting and joining are computed, not assumed.                  *)
(***************************************************************************)
EXTENDS Integers, Sequences, FiniteSets, TLC

VARIABLES
    data,               \* coordinator.data: the current EnergyZeroData
    now,                \* the wall clock read by utcnow(), in ticks
    time_zone,          \* hass.config.time_zone
    DEFAULT_TIME_ZONE,  \* homeassistant.util.dt.DEFAULT_TIME_ZONE
    entities,           \* the entities handed to async_add_entities
    last                \* the latest read: who was read and what came back

vars == <<data, now, time_zone, DEFAULT_TIME_ZONE, entities, last>>

-----------------------------------------------------------------------------
(* Bounds of the model *)

MaxLen == 2         \* entries of the electricity series
MaxGasLen == 2      \* entries of the gas series
MaxNow == 3         \* last tick of the clock
TicksPerHour == 2   \* resolution of the clock

HoursPerDay == 24

PriceSet == {-51, 240, 10496}
GasPriceSet == {1204}
TimeZones == {"Europe/London", "Atlantic/Cape_Verde"}

-----------------------------------------------------------------------------
(* Python values *)

None == [t |-> "None"]
PyFloat(v) == [t |-> "float", f |-> v]
PyInt(n) == [t |-> "int", i |-> n]
PyStr(s) == [t |-> "str", s |-> s]
PyDatetime(k) == [t |-> "datetime", k |-> k]
Raise(e) == [t |-> "raise", exc |-> e]

-----------------------------------------------------------------------------
(* Snapshots.  A price series (Electricity.prices, Gas.prices) is the      *)
(* sequence of the dict's items in insertion order, keys unique and        *)
(* consecutive from hour 0.                                                *)

SeriesOf(n, P) ==
    UNION {{[i \in 1..m |-> [k |-> i - 1, v |-> f[i]]] : f \in [1..m -> P]}
           : m \in 0..n}

\* Electricity(prices) and Gas(prices)
Electricity(prices) == [prices |-> prices]
Gas(prices) == [prices |-> prices]

\* gas_today is None when the gas prices could not be fetched
GasOptions ==
    {None} \cup {Gas(s) : s \in SeriesOf(MaxGasLen, GasPriceSet) \ {<<>>}}

\* The series {00:00 -> 0.20, 01:00 -> 0.50, 02:00 -> 0.10}
ExampleSeries ==
    <<[k |-> 0, v |-> 200], [k |-> 1, v |-> 500], [k |-> 2, v |-> 100]>>

Snapshots ==
    [energy_today :
        {Electricity(s) : s \in SeriesOf(MaxLen, PriceSet) \cup {ExampleSeries}},
     gas_today : GasOptions]

-----------------------------------------------------------------------------
(* Time zones: get_time_zone, utcoffset and as_local of                    *)
(* homeassistant.util.dt, over the hours of the model.                     *)

get_time_zone(time_zone_str) ==
    IF time_zone_str \in TimeZones THEN time_zone_str ELSE "None"

\* utcoffset of the zone at UTC hour k, in hours
UtcOffset(tz, k) ==
    CASE tz = "Europe/London" -> IF k < 1 THEN 1 ELSE 0
      [] tz = "Atlantic/Cape_Verde" -> -1
      [] OTHER -> 0

\* as_local(k.replace(tzinfo=UTC)).replace(tzinfo=None): the naive local
\* wall-clock datetime, in the process default zone
as_local(k) == k + UtcOffset(DEFAULT_TIME_ZONE, k)

hour(dt) == dt % HoursPerDay

-----------------------------------------------------------------------------
(* String formatting *)

Digit(d) == <<"0", "1", "2", "3", "4", "5", "6", "7", "8", "9">>[d + 1]

RECURSIVE DecDigits(_)
DecDigits(n) ==
    IF n < 10 THEN <<Digit(n)>> ELSE DecDigits(n \div 10) \o <<Digit(n % 10)>>

\* f"{n:02d}"
Format02d(n) == IF n < 10 THEN <<"0", Digit(n)>> ELSE DecDigits(n)

\* Format2f with the precision mistaken: f"{v:.1f}"
Format1f(v) ==
    LET a == IF v < 0 THEN -v ELSE v
        c == (a + 50) \div 100
    IN  (IF v < 0 THEN <<"-">> ELSE <<>>)
        \o DecDigits(c \div 10) \o <<".">> \o <<Digit(c % 10)>>

\* f"{v:.2f}" of the float v/1000
Format2f(v) ==
    LET a == IF v < 0 THEN -v ELSE v
        c == (a + 5) \div 10
    IN  (IF v < 0 THEN <<"-">> ELSE <<>>)
        \o DecDigits(c \div 100) \o <<".">>
        \o <<Digit((c \div 10) % 10), Digit(c % 10)>>

\* ",".join(tokens)
RECURSIVE Join(_)
Join(tokens) ==
    IF tokens = <<>> THEN <<>>
    ELSE IF Len(tokens) = 1 THEN tokens[1]
    ELSE tokens[1] \o <<",">> \o Join(Tail(tokens))

\* TupleLess with the pairs built as (price, local datetime)
TupleLess_price_first(a, b) == a[2] < b[2] \/ (a[2] = b[2] /\ a[1] < b[1])

\* tuple comparison (local datetime, price) < (local datetime, price)
TupleLess(a, b) == a[1] < b[1] \/ (a[1] = b[1] /\ a[2] < b[2])

RECURSIVE Insert(_, _)
Insert(x, s) ==
    IF s = <<>> THEN <<x>>
    ELSE IF TupleLess(x, s[1]) THEN <<x>> \o s
    ELSE <<s[1]>> \o Insert(x, Tail(s))

\* sorted(items): stable, ascending
RECURSIVE sorted(_)
sorted(items) ==
    IF items = <<>> THEN <<>>
    ELSE Insert(items[Len(items)], sorted(SubSeq(items, 1, Len(items) - 1)))

-----------------------------------------------------------------------------
(* The price models the views read (Electricity and Gas of the energyzero  *)
(* package), as the specification describes them.                          *)

utcnow == now

\* price for the hour containing moment, None when the series has none
price_at_time(prices, moment) ==
    LET h == moment \div TicksPerHour
        hit == {i \in 1..Len(prices) : prices[i].k = h}
    IN  IF hit = {} THEN None ELSE PyFloat(prices[CHOOSE i \in hit : TRUE].v)

current_price(prices) == price_at_time(prices, utcnow)

RECURSIVE SumPrices(_)
SumPrices(prices) ==
    IF prices = <<>> THEN 0 ELSE prices[1].v + SumPrices(Tail(prices))

average_price(prices) ==
    IF prices = <<>> THEN Raise("ZeroDivisionError")
    ELSE PyFloat(SumPrices(prices) \div Len(prices))

MinPrice(prices) ==
    CHOOSE m \in {prices[i].v : i \in 1..Len(prices)} :
        \A i \in 1..Len(prices) : m <= prices[i].v

MaxPrice(prices) ==
    CHOOSE m \in {prices[i].v : i \in 1..Len(prices)} :
        \A i \in 1..Len(prices) : m >= prices[i].v

\* extreme_prices[0] and extreme_prices[1]
extreme_prices(prices, idx) ==
    IF prices = <<>> THEN Raise("ValueError")
    ELSE PyFloat(IF idx = 0 THEN MinPrice(prices) ELSE MaxPrice(prices))

\* the earliest hour that holds the price p
FirstTimeOf(prices, p) ==
    LET at == {i \in 1..Len(prices) : prices[i].v = p}
    IN  prices[CHOOSE i \in at : \A j \in at : i <= j].k

highest_price_time(prices) ==
    IF prices = <<>> THEN Raise("ValueError")
    ELSE PyDatetime(FirstTimeOf(prices, MaxPrice(prices)))

lowest_price_time(prices) ==
    IF prices = <<>> THEN Raise("ValueError")
    ELSE PyDatetime(FirstTimeOf(prices, MinPrice(prices)))

pct_of_max_price(prices) ==
    LET cur == current_price(prices)
    IN  IF prices = <<>> THEN Raise("ValueError")
        ELSE IF cur = None THEN Raise("TypeError")
        ELSE IF MaxPrice(prices) = 0 THEN Raise("ZeroDivisionError")
        ELSE PyFloat((100 * cur.f) \div MaxPrice(prices))

hours_priced_equal_or_lower(prices) ==
    LET cur == current_price(prices)
    IN  IF cur = None THEN PyInt(0)
        ELSE PyInt(Cardinality({i \in 1..Len(prices) : prices[i].v <= cur.f}))

-----------------------------------------------------------------------------
(* sensor.py *)

\* process_timestamp_prices(hass, data)
process_timestamp_prices(hass, d) ==
    LET prices == d.energy_today.prices
        local_tz == get_time_zone(hass.config.time_zone)
        local_prices ==
            sorted([i \in 1..Len(prices) |->
                        <<as_local(prices[i].k), prices[i].v>>])
    IN  PyStr(Join([i \in 1..Len(local_prices) |->
                 Format02d(hour(local_prices[i][1])) \o <<":">>
                 \o Format2f(local_prices[i][2])]))

\* get_gas_price with the hours left out of the moment
get_gas_price_ignoring_hours(d, hours) ==
    IF d.gas_today = None THEN None
    ELSE price_at_time(d.gas_today.prices, utcnow)

\* get_gas_price(data, hours)
get_gas_price(d, hours) ==
    IF d.gas_today = None THEN None
    ELSE price_at_time(d.gas_today.prices, utcnow + hours * TicksPerHour)

\* The descriptions of SENSORS, in order; service_type and key as the words
\* that "_" separates.
SENSORS ==
    << [key |-> <<"current", "hour", "price">>, service_type |-> <<"today", "gas">>],
       [key |-> <<"next", "hour", "price">>, service_type |-> <<"today", "gas">>],
       [key |-> <<"current", "hour", "price">>, service_type |-> <<"today", "energy">>],
       [key |-> <<"next", "hour", "price">>, service_type |-> <<"today", "energy">>],
       [key |-> <<"average", "price">>, service_type |-> <<"today", "energy">>],
       [key |-> <<"max", "price">>, service_type |-> <<"today", "energy">>],
       [key |-> <<"min", "price">>, service_type |-> <<"today", "energy">>],
       [key |-> <<"highest", "price", "time">>, service_type |-> <<"today", "energy">>],
       [key |-> <<"lowest", "price", "time">>, service_type |-> <<"today", "energy">>],
       [key |-> <<"percentage", "of", "max">>, service_type |-> <<"today", "energy">>],
       [key |-> <<"hours", "priced", "equal", "or", "lower">>,
        service_type |-> <<"today", "energy">>],
       [key |-> <<"timestamp", "prices">>, service_type |-> <<"today", "energy">>] >>

Descriptions == 1..Len(SENSORS)

\* today_gas_current_hour_price without its guard: None has no current_price
today_gas_current_hour_price_unguarded(d) ==
    IF d.gas_today # None THEN current_price(d.gas_today.prices)
    ELSE Raise("AttributeError")

\* today_energy_hours_priced_equal_or_lower with the property of the
\* description before it
today_energy_hours_priced_copied(d) == pct_of_max_price(d.energy_today.prices)

\* The value_fn lambdas of SENSORS, named service_type_key
today_gas_current_hour_price(d) ==
    IF d.gas_today # None THEN current_price(d.gas_today.prices) ELSE None

today_gas_next_hour_price(d) == get_gas_price(d, 1)

today_energy_current_hour_price(d) == current_price(d.energy_today.prices)

today_energy_next_hour_price(d) ==
    price_at_time(d.energy_today.prices, utcnow + 1 * TicksPerHour)

today_energy_average_price(d) == average_price(d.energy_today.prices)

today_energy_max_price(d) == extreme_prices(d.energy_today.prices, 1)

today_energy_min_price(d) == extreme_prices(d.energy_today.prices, 0)

today_energy_highest_price_time(d) == highest_price_time(d.energy_today.prices)

today_energy_lowest_price_time(d) == lowest_price_time(d.energy_today.prices)

today_energy_percentage_of_max(d) == pct_of_max_price(d.energy_today.prices)

today_energy_hours_priced_equal_or_lower(d) ==
    hours_priced_equal_or_lower(d.energy_today.prices)

today_energy_timestamp_prices(h, d) == process_timestamp_prices(h, d)

\* SENSORS[n].value_fn(data): the lambda of n=12 takes two arguments
value_fn1(n, d) ==
    CASE n = 1 -> today_gas_current_hour_price(d)
      [] n = 2 -> today_gas_next_hour_price(d)
      [] n = 3 -> today_energy_current_hour_price(d)
      [] n = 4 -> today_energy_next_hour_price(d)
      [] n = 5 -> today_energy_average_price(d)
      [] n = 6 -> today_energy_max_price(d)
      [] n = 7 -> today_energy_min_price(d)
      [] n = 8 -> today_energy_highest_price_time(d)
      [] n = 9 -> today_energy_lowest_price_time(d)
      [] n = 10 -> today_energy_percentage_of_max(d)
      [] n = 11 -> today_energy_hours_priced_equal_or_lower(d)
      [] OTHER -> Raise("TypeError")

\* SENSORS[n].value_fn(hass, data): the other lambdas take one argument
value_fn2(n, h, d) ==
    IF n = 12 THEN today_energy_timestamp_prices(h, d) ELSE Raise("TypeError")

hass == [config |-> [time_zone |-> time_zone]]

\* EnergyZeroSensorEntity.__init__: the entity of description n.  Its ids
\* are fixed by the description and are computed by entity_id and unique_id.
EnergyZeroSensorEntity(n) ==
    [entity_description |-> n, attr_native_value |-> None]

\* entity_id without the service type
entity_id_without_service_type(self) ==
    <<"sensor.energyzero">> \o SENSORS[self.entity_description].key

\* self.entity_id and self._attr_unique_id: the words joined by "_"
entity_id(self) ==
    <<"sensor.energyzero">> \o SENSORS[self.entity_description].service_type
    \o SENSORS[self.entity_description].key

unique_id(self) ==
    <<"entry">> \o SENSORS[self.entity_description].service_type
    \o SENSORS[self.entity_description].key

\* The function native_value(self) that follows the class
native_value(self) ==
    IF SENSORS[self.entity_description].key = <<"timestamp", "prices">>
    THEN value_fn2(self.entity_description, hass, data)
    ELSE value_fn1(self.entity_description, data)

\* The state the platform reads from an entity: the class body defines no
\* native_value, so the read is SensorEntity's, of _attr_native_value
StateOf(self) == self.attr_native_value

NoRead == [via |-> "none"]

\* The snapshots one refresh can put in place of d: the gas series, one
\* price, or the last hour of the electricity series differs
Refreshed(d) ==
    LET gas == {[d EXCEPT !.gas_today = g] : g \in GasOptions}
        price == {[d EXCEPT !.energy_today.prices[i].v = p] :
                     i \in 1..Len(d.energy_today.prices), p \in PriceSet}
        longer == {[d EXCEPT !.energy_today.prices =
                       Append(@, [k |-> Len(@), v |-> p])] : p \in PriceSet}
        shorter == IF d.energy_today.prices = <<>> THEN {}
                   ELSE {[d EXCEPT !.energy_today.prices =
                            SubSeq(@, 1, Len(@) - 1)]}
    IN  ((gas \cup price \cup longer \cup shorter) \cap Snapshots) \ {d}

-----------------------------------------------------------------------------
(* The state machine *)

Init ==
    /\ data \in Snapshots
    /\ now = 0
    /\ time_zone \in TimeZones
    /\ DEFAULT_TIME_ZONE = get_time_zone(time_zone)
    /\ entities = <<>>
    /\ last = NoRead

\* async_setup_entry: one entity per description
async_setup_entry ==
    /\ entities = <<>>
    /\ entities' = [n \in Descriptions |-> EnergyZeroSensorEntity(n)]
    /\ UNCHANGED <<data, now, time_zone, DEFAULT_TIME_ZONE, last>>

\* The platform reads the state of entity e
ReadState(e) ==
    /\ e \in DOMAIN entities
    /\ last' = [via |-> "state", n |-> e, value |-> StateOf(entities[e])]
    /\ UNCHANGED <<data, now, time_zone, DEFAULT_TIME_ZONE, entities>>

\* ReadValue where a value_fn that raises takes the gas series with it
ReadValue_dropping_gas(e) ==
    /\ e \in DOMAIN entities
    /\ last' = [via |-> "native_value", n |-> e, value |-> native_value(entities[e])]
    /\ data' = IF native_value(entities[e]).t = "raise"
               THEN [data EXCEPT !.gas_today = None] ELSE data
    /\ UNCHANGED <<now, time_zone, DEFAULT_TIME_ZONE, entities>>

\* native_value is applied to entity e
ReadValue(e) ==
    /\ e \in DOMAIN entities
    /\ last' = [via |-> "native_value", n |-> e, value |-> native_value(entities[e])]
    /\ UNCHANGED <<data, now, time_zone, DEFAULT_TIME_ZONE, entities>>

\* The coordinator replaces the snapshot
Refresh(d) ==
    /\ entities # <<>>
    /\ data' = d
    /\ last' = NoRead
    /\ UNCHANGED <<now, time_zone, DEFAULT_TIME_ZONE, entities>>

\* Time passes
Tick(n) ==
    /\ entities # <<>>
    /\ now + n <= MaxNow
    /\ now' = now + n
    /\ last' = NoRead
    /\ UNCHANGED <<data, time_zone, DEFAULT_TIME_ZONE, entities>>

\* hass.config.set_time_zone: the configured zone and the process default
set_time_zone(z) ==
    /\ entities # <<>>
    /\ z # time_zone \/ z # DEFAULT_TIME_ZONE
    /\ time_zone' = z
    /\ DEFAULT_TIME_ZONE' = z
    /\ last' = NoRead
    /\ UNCHANGED <<data, now, entities>>

\* dt_util.set_default_time_zone: the process default alone
set_default_time_zone(z) ==
    /\ entities # <<>>
    /\ z # DEFAULT_TIME_ZONE
    /\ DEFAULT_TIME_ZONE' = z
    /\ UNCHANGED <<data, now, time_zone, entities, last>>

Next ==
    \/ async_setup_entry
    \/ \E e \in Descriptions : ReadState(e)
    \/ \E e \in Descriptions : ReadValue(e)
    \/ \E d \in Refreshed(data) : Refresh(d)
    \/ \E n \in 1..TicksPerHour : Tick(n)
    \/ \E z \in TimeZones : set_time_zone(z)
    \/ \E z \in TimeZones : set_default_time_zone(z)

Spec == Init /\ [][Next]_vars

TypeOK ==
    /\ data \in Snapshots
    /\ now \in 0..MaxNow
    /\ time_zone \in TimeZones
    /\ DEFAULT_TIME_ZONE \in TimeZones

-----------------------------------------------------------------------------
(* Reading a rendered string back *)

IsDigit(c) == \E d \in 0..9 : Digit(d) = c

DigitVal(c) == CHOOSE d \in 0..9 : Digit(d) = c

RECURSIVE NumVal(_)
NumVal(cs) ==
    IF cs = <<>> THEN 0
    ELSE 10 * NumVal(SubSeq(cs, 1, Len(cs) - 1)) + DigitVal(cs[Len(cs)])

\* The pieces of str between the commas; none for the empty string
RECURSIVE Tokens(_)
Tokens(str) ==
    IF str = <<>> THEN <<>>
    ELSE LET commas == {i \in 1..Len(str) : str[i] = ","}
         IN  IF commas = {} THEN <<str>>
             ELSE LET c == CHOOSE i \in commas : \A j \in commas : i <= j
                  IN  <<SubSeq(str, 1, c - 1)>>
                      \o (IF c = Len(str) THEN <<<<>>>>
                          ELSE Tokens(SubSeq(str, c + 1, Len(str))))

\* The text of a token after "HH:", and that text without its sign
PriceText(tok) == SubSeq(tok, 4, Len(tok))

Unsigned(txt) ==
    IF txt # <<>> /\ txt[1] = "-" THEN Tail(txt) ELSE txt

\* HH ":" [-] digits "." two digits
WellFormed(tok) ==
    /\ Len(tok) >= 7
    /\ IsDigit(tok[1]) /\ IsDigit(tok[2]) /\ tok[3] = ":"
    /\ LET u == Unsigned(PriceText(tok))
       IN  /\ Len(u) >= 4
           /\ u[Len(u) - 2] = "."
           /\ \A i \in 1..Len(u) : i # Len(u) - 2 => IsDigit(u[i])

\* HH:D.DD to the letter: one digit before the point and no sign
MatchesHH_D_DD(tok) ==
    /\ Len(tok) = 7
    /\ IsDigit(tok[1]) /\ IsDigit(tok[2]) /\ tok[3] = ":"
    /\ IsDigit(tok[4]) /\ tok[5] = "." /\ IsDigit(tok[6]) /\ IsDigit(tok[7])

TokenHH(tok) == NumVal(SubSeq(tok, 1, 2))

\* The price a well-formed token shows, in cents, and whether it is signed
TokenCents(tok) ==
    LET u == Unsigned(PriceText(tok))
    IN  100 * NumVal(SubSeq(u, 1, Len(u) - 3)) + NumVal(SubSeq(u, Len(u) - 1, Len(u)))

TokenSigned(tok) == PriceText(tok)[1] = "-"

\* v rounded to cents, as a magnitude
RoundedCents(v) == ((IF v < 0 THEN -v ELSE v) + 5) \div 10

\* The naive local datetime and the local hour of UTC hour k in zone tz
LocalDatetime(tz, k) == k + UtcOffset(tz, k)

LocalHour(tz, k) == LocalDatetime(tz, k) % HoursPerDay

IsRendering == last.via = "native_value" /\ last.n = 12 /\ last.value.t = "str"

LastTokens == Tokens(last.value.s)

\* A step that renders: it leaves a rendering in last and the process zone
\* as it was (the only other step that keeps a rendering in last changes it)
RenderStep ==
    /\ last'.via = "native_value" /\ last'.n = 12 /\ last'.value.t = "str"
    /\ DEFAULT_TIME_ZONE' = DEFAULT_TIME_ZONE

\* Token i of toks shows entry p[i] of prices, its hour taken in zone tz
Shows(toks, prices, tz, p) ==
    \A i \in 1..Len(toks) :
        /\ WellFormed(toks[i])
        /\ TokenHH(toks[i]) = LocalHour(tz, prices[p[i]].k)
        /\ TokenCents(toks[i]) = RoundedCents(prices[p[i]].v)
        /\ TokenSigned(toks[i]) <=> prices[p[i]].v < 0

-----------------------------------------------------------------------------
(* C2 *)

\* C2, as stated: in the latest hourly rendering the HH of every token is
\* strictly smaller than the HH of the token after it.
C2_AscendingHH ==
    IsRendering =>
        \A i \in 1..(Len(LastTokens) - 1) :
            TokenHH(LastTokens[i]) < TokenHH(LastTokens[i + 1])

\* The tokens of str show the entries of prices in ascending order of the
\* pair (naive local datetime in tz, price)
OrderedByLocalDatetime(str, prices, tz) ==
    LET toks == Tokens(str)
    IN  /\ Len(toks) = Len(prices)
        /\ \E p \in Permutations(1..Len(prices)) :
              /\ Shows(toks, prices, tz, p)
              /\ \A i \in 1..(Len(prices) - 1) :
                    \/ LocalDatetime(tz, prices[p[i]].k)
                         < LocalDatetime(tz, prices[p[i + 1]].k)
                    \/ /\ LocalDatetime(tz, prices[p[i]].k)
                            = LocalDatetime(tz, prices[p[i + 1]].k)
                       /\ prices[p[i]].v <= prices[p[i + 1]].v

\* C2, amended: every hourly rendering lists its tokens in ascending order
\* of the naive local date-time of their entries (day and hour, in the zone
\* as_local converts to), entries of one local date-time in ascending order
\* of price; HH falls from one token to the next where the local day changes.
C2_AscendingLocalDatetime ==
    [][RenderStep =>
         OrderedByLocalDatetime(last'.value.s, data.energy_today.prices,
                                DEFAULT_TIME_ZONE)]_vars

\* C2 witness: a rendering whose entries cross local midnight, HH falling
C2_Witness ==
    /\ IsRendering
    /\ \E i \in 1..(Len(LastTokens) - 1) :
          TokenHH(LastTokens[i]) > TokenHH(LastTokens[i + 1])

-----------------------------------------------------------------------------
(* C3 *)

\* C3, as stated: the latest hourly rendering has one token per entry of the
\* series, the empty string for the empty series, and every token matches
\* HH:D.DD.
C3_TokensMatchHHDDD ==
    IsRendering =>
        /\ Len(LastTokens) = Len(data.energy_today.prices)
        /\ data.energy_today.prices = <<>> => last.value.s = <<>>
        /\ \A i \in 1..Len(LastTokens) : MatchesHH_D_DD(LastTokens[i])

RenderedFrom(val, prices, tz) ==
    LET toks == Tokens(val.s)
    IN  /\ val.t = "str"
        /\ Len(toks) = Len(prices)
        /\ prices = <<>> => val.s = <<>>
        /\ \E p \in Permutations(1..Len(prices)) :
              /\ Shows(toks, prices, tz, p)
              /\ \A i \in 1..Len(toks) :
                    MatchesHH_D_DD(toks[i]) <=>
                        /\ prices[p[i]].v >= 0
                        /\ RoundedCents(prices[p[i]].v) < 1000

\* C3, amended: every hourly rendering has exactly one token per entry (the
\* empty string for the empty series); each token is the entry's local hour
\* (in the zone as_local converts to) as two digits, a colon, and the price
\* rounded to two fractional digits, with a minus sign when the price is
\* negative and as many integer digits as it needs; the token matches
\* HH:D.DD exactly when the price is not negative and rounds below 10.00.
C3_OneTokenPerEntry ==
    [][RenderStep =>
         RenderedFrom(last'.value, data.energy_today.prices,
                      DEFAULT_TIME_ZONE)]_vars

\* C3 witness: a rendering with two entries in the same local hour, one
\* price negative and the other of 10 or more
C3_Witness ==
    /\ IsRendering
    /\ Len(LastTokens) = Len(data.energy_today.prices)
    /\ \E i, j \in 1..Len(LastTokens) :
          /\ i # j /\ TokenHH(LastTokens[i]) = TokenHH(LastTokens[j])
          /\ TokenSigned(LastTokens[i])
          /\ ~TokenSigned(LastTokens[j]) /\ Len(LastTokens[j]) = 8

-----------------------------------------------------------------------------
(* C4 *)

\* C4, as stated: the hours of the tokens of the latest hourly rendering are
\* the hours of the entries in the zone named by hass.config.time_zone.
C4_HoursInConfiguredZone ==
    IsRendering =>
        /\ Len(LastTokens) = Len(data.energy_today.prices)
        /\ \E p \in Permutations(1..Len(data.energy_today.prices)) :
              \A i \in 1..Len(LastTokens) :
                  TokenHH(LastTokens[i])
                    = LocalHour(get_time_zone(time_zone),
                                data.energy_today.prices[p[i]].k)

-----------------------------------------------------------------------------
(* The views *)

GasViews == {n \in Descriptions : SENSORS[n].service_type = <<"today", "gas">>}

ElectricityViews == Descriptions \ GasViews

\* What description n's value_fn returns for snapshot d, called as
\* native_value calls it
View(n, d) ==
    IF SENSORS[n].key = <<"timestamp", "prices">>
    THEN value_fn2(n, hass, d) ELSE value_fn1(n, d)

IsValueRead(n) == last.via = "native_value" /\ last.n = n

\* The price of the entry whose hour contains tick t, None without one
ExpectedPriceAt(prices, t) ==
    LET hit == {i \in 1..Len(prices) :
                   /\ prices[i].k * TicksPerHour <= t
                   /\ t < (prices[i].k + 1) * TicksPerHour}
    IN  IF hit = {} THEN None ELSE PyFloat(prices[CHOOSE i \in hit : TRUE].v)

\* A step that reads a view or a state
ReadStep == last' # last /\ last'.via # "none"

-----------------------------------------------------------------------------
(* C1 *)

\* C1: while the snapshot has no gas series, both gas views are None (no
\* exception), and every electricity view has the value it has for the same
\* electricity series with any gas series present.
C1_MissingGasInvariance ==
    data.gas_today = None =>
        /\ \A n \in GasViews : View(n, data) = None
        /\ \A n \in GasViews : IsValueRead(n) => last.value = None
        /\ \A g \in GasOptions, n \in ElectricityViews :
              View(n, [data EXCEPT !.gas_today = g]) = View(n, data)

\* C1 witness: the current-hour gas price was read without a gas series,
\* beside an electricity series with a current price
C1_Witness ==
    /\ data.gas_today = None
    /\ IsValueRead(1) /\ last.value = None
    /\ View(3, data) # None

-----------------------------------------------------------------------------
(* C5 *)

C5_State ==
    /\ View(4, data) = ExpectedPriceAt(data.energy_today.prices, now + TicksPerHour)
    /\ View(2, data) =
          IF data.gas_today = None THEN None
          ELSE ExpectedPriceAt(data.gas_today.prices, now + TicksPerHour)
    /\ \A n \in {2, 4} : IsValueRead(n) => last.value = View(n, data)

C5_Step ==
    (now' = now + TicksPerHour /\ data' = data) =>
        /\ View(1, data)' = View(2, data)
        /\ View(3, data)' = View(4, data)

\* C5: for gas and for electricity the next-hour price is the price of the
\* hour that contains now + 1 hour, None (not an exception) when the series
\* has no such hour, and it is what the current-hour price of the same
\* series is one hour later.
C5_NextHourPrice == []C5_State /\ [][C5_Step]_vars

\* C5 witness: the next-hour electricity price was read in the last covered
\* hour: the current price exists, the next one is None
C5_Witness ==
    /\ IsValueRead(4) /\ last.value = None
    /\ View(3, data) # None

-----------------------------------------------------------------------------
(* C6 *)

\* C6: a read (of a state or of a view; failing, unavailable or not) changes
\* nothing that a view reads: the snapshot, the clock, both zones and the
\* entities are as before it, so every sibling view is computed from what it
\* would be computed from had the read never been made.
C6_ReadsAreIndependent ==
    [][ReadStep =>
         UNCHANGED <<data, now, time_zone, DEFAULT_TIME_ZONE, entities>>]_vars

\* C6 witness: a view has just raised while a sibling view has a value
C6_Witness ==
    /\ last.via = "native_value" /\ last.value.t = "raise"
    /\ View(1, data) # None

-----------------------------------------------------------------------------
(* C7 *)

\* The count view is the number of entries priced at or below the price of
\* the current hour, 0 when the current hour has no price
CountIsEqualOrCheaper ==
    LET prices == data.energy_today.prices
        cur == ExpectedPriceAt(prices, now)
        expected ==
            IF cur = None THEN 0
            ELSE Cardinality({i \in 1..Len(prices) : prices[i].v <= cur.f})
    IN  /\ View(11, data) = PyInt(expected)
        /\ IsValueRead(11) => last.value = PyInt(expected)

\* The count view has been read at 01:00 over the example series
ExampleRead ==
    /\ IsValueRead(11)
    /\ data.energy_today.prices = ExampleSeries
    /\ now = TicksPerHour

\* C7, as stated: the count view is the number of entries priced at or
\* below the price of the current hour, 0 without one, and it is 1 for the
\* series {00:00 -> 0.20, 01:00 -> 0.50, 02:00 -> 0.10} read at 01:00.
C7_ExampleCountsOne ==
    /\ CountIsEqualOrCheaper
    /\ ExampleRead => last.value = PyInt(1)

\* C7, amended: the count view is the number of entries priced at or below
\* the price of the current hour, 0 without one, and it is 3 for the series
\* {00:00 -> 0.20, 01:00 -> 0.50, 02:00 -> 0.10} read at 01:00 (0.50 is the
\* highest price, so all three hours are priced at or below it).
C7_CountEqualOrCheaper ==
    /\ CountIsEqualOrCheaper
    /\ ExampleRead => last.value = PyInt(3)

\* C7 witness: the count was read at 01:00 over the example series
C7_Witness == ExampleRead /\ last.value = PyInt(3)

-----------------------------------------------------------------------------
(* C8 *)

\* C8, as stated: with the snapshot, the clock and hass.config.time_zone as
\* they were at the latest read of a view, reading that view again returns
\* what that read returned.
C8_RepeatedReadAgrees ==
    last.via = "native_value" => View(last.n, data) = last.value

-----------------------------------------------------------------------------
(* C9 *)

\* C9, as stated: the state read from an entity is its description's
\* value_fn applied to the coordinator's current data.
C9_StateIsValueFn ==
    last.via = "state" => last.value = native_value(entities[last.n])

-----------------------------------------------------------------------------
(* C10 *)

\* C10: once set up there is exactly one entity per description, the unique
\* ids and the entity ids are pairwise distinct, no two descriptions share
\* (service_type, key), and the keys current_hour_price and next_hour_price
\* each occur in two descriptions.
C10_OneEntityPerDescription ==
    entities # <<>> =>
        /\ Len(entities) = Len(SENSORS)
        /\ \A n \in Descriptions : entities[n].entity_description = n
        /\ \A i, j \in Descriptions :
              i # j =>
                  /\ unique_id(entities[i]) # unique_id(entities[j])
                  /\ entity_id(entities[i]) # entity_id(entities[j])
                  /\ <<SENSORS[i].service_type, SENSORS[i].key>>
                       # <<SENSORS[j].service_type, SENSORS[j].key>>
        /\ \A key \in {<<"current", "hour", "price">>, <<"next", "hour", "price">>} :
              Cardinality({n \in Descriptions : SENSORS[n].key = key}) = 2

\* C10 witness: async_setup_entry has run and a state was read
C10_Witness == Len(entities) = Len(SENSORS) /\ last.via = "state"

====
